---- MODULE Spec2Model ----
(***************************************************************************)
(* Model of core/scc/vscc/validator_onevalidsignature.go: the validation   *)
(* system chaincode ValidatorOneValidSignature (Invoke and                 *)
(* ValidateLSCCInvocation).                                                *)
(*                                                                         *)
(* A serialized message is modelled by its decode tree: the record a       *)
(* deterministic codec produces from the bytes, with a marker for the      *)
(* layer at which decoding fails.  Byte strings the validator itself works *)
(* on (the proposal response payload, the endorser identities) are         *)
(* sequences of small numbers; Go slices over them are modelled with their *)
(* backing array, length and capacity.                                     *)
(***************************************************************************)
EXTENDS Integers, Sequences, FiniteSets, TLC

\* ------------------------------------------------------------------ bounds
MaxActions == 3
MaxEndorsements == 2
MaxSpare == 1
MaxExtraArgs == 1

\* ------------------------------------------------------- program constants
\* if len(args) < 3
MinArgs == 3
\* lscc.DEPLOY, lscc.UPGRADE (package core/scc/lscc)
DEPLOY == "deploy"
UPGRADE == "upgrade"
\* the reserved name of the lifecycle system chaincode
LSCC == "lscc"
\* common.HeaderType_ENDORSER_TRANSACTION
ENDORSER_TRANSACTION == "ENDORSER_TRANSACTION"

Calls == {1, 2}

VARIABLES
    pc,            \* position of each call inside Invoke
    args,          \* stub.GetArgs()
    payl,          \* *common.Payload
    chdr,          \* *common.ChannelHeader
    policy,        \* the compiled policy
    tx,            \* *pb.Transaction
    act,           \* index of the action the loop is at
    cap,           \* *pb.ChaincodeActionPayload of the current action
    prespArr,      \* backing array of cap.Action.ProposalResponsePayload
    signatureSet,  \* []*common.SignedData being built
    response,      \* pb.Response returned
    log,           \* collaborator calls made so far, in order
    evaluated,     \* what policy.Evaluate received, call by call
    mspMap         \* the process-wide table from channel id to MSP manager

vars == <<pc, args, payl, chdr, policy, tx, act, cap, prespArr, signatureSet,
          response, log, evaluated, mspMap>>

Null == [nil |-> TRUE]

\* ------------------------------------------------------------ byte strings
\* the byte strings of the model: the empty one and two that differ
Bytes == {<<>>, <<1>>, <<2>>}

\* A signature is modelled symbolically: it names the signer and the message
\* that was signed, and verifies against exactly that pair.
Sign(identity, msg) == [signer |-> identity, msg |-> msg]
Forged == [signer |-> <<>>, msg |-> <<0>>]


\* ------------------------------------------------------------------ inputs
\* SeqsUpTo(S, n): the sequences over S of length 0..n
SeqsUpTo(S, n) == UNION {[1..k -> S] : k \in 0..n}

\* pb.Endorsement as decoded: an honest endorser signs P ++ Endorser
Endorsement(P, id, honest) ==
    [Endorser |-> id,
     Signature |-> IF honest THEN Sign(id, P \o id) ELSE Forged]

EndorsementSeqs(P) ==
    LET E == {Endorsement(P, id, h) : id \in Bytes, h \in BOOLEAN}
    IN  SeqsUpTo(E, MaxEndorsements)

\* The decode tree of a ChaincodeProposalPayload and of the
\* ChaincodeInvocationSpec in its Input (read by ValidateLSCCInvocation).
Cpp(dec, a) == [dec |-> dec, Args |-> a]
FuncNames == {"deploy", "upgrade", "", "invoke", "Deploy", "DEPLOY",
              "Upgrade", "UPGRADE", "install"}
CppTrees ==
    {Cpp(d, <<>>) : d \in {"badcpp", "badcis", "nospec", "noinput", "noargs"}}
    \cup {Cpp("ok", <<f>>) : f \in FuncNames}
    \cup {Cpp("ok", <<f, "x">>) : f \in FuncNames}

\* The decode tree of a TransactionAction's Payload (a ChaincodeActionPayload):
\* dec = "bad" when GetChaincodeActionPayload fails, "noaction" when the
\* decoded record has no Action; spare is cap(prp) - len(prp).
CapTree(dec, P, spare, ends, cpp) ==
    [dec |-> dec, prp |-> P, spare |-> spare, Endorsements |-> ends,
     ChaincodeProposalPayload |-> cpp]

OneHonest == <<Endorsement(<<1>>, <<1>>, TRUE)>>
ActPassDeploy == CapTree("ok", <<1>>, 0, OneHonest, Cpp("ok", <<DEPLOY>>))
ActPassInvoke == CapTree("ok", <<1>>, 0, OneHonest, Cpp("ok", <<"invoke">>))
ActFailPolicy == CapTree("ok", <<1>>, 0, <<>>, Cpp("ok", <<DEPLOY>>))
ActBadCap == CapTree("bad", <<>>, 0, <<>>, Cpp("badcpp", <<>>))
ActNoAction == CapTree("noaction", <<>>, 0, <<>>, Cpp("ok", <<DEPLOY>>))
\* the payload's buffer has room for an identity; the first endorsement is
\* honest, the second is not
ActAliased ==
    CapTree("ok", <<>>, 1,
            <<Endorsement(<<>>, <<1>>, TRUE), Endorsement(<<>>, <<2>>, FALSE)>>,
            Cpp("ok", <<DEPLOY>>))

\* actions that differ in what decides the control flow
CoreActions == {ActPassDeploy, ActPassInvoke, ActFailPolicy, ActBadCap, ActNoAction}
\* actions that differ in the bytes the signature set is built from
ByteActions ==
    UNION {{CapTree("ok", P, s, ends, Cpp("ok", <<DEPLOY>>)) :
                s \in 0..MaxSpare, ends \in EndorsementSeqs(P)} : P \in Bytes}
\* actions that differ in the invocation spec the lifecycle guard reads
GuardActions == {CapTree("ok", <<1>>, 0, OneHonest, c) : c \in CppTrees}

\* The decode tree of the header extension: dec = "bad" when
\* GetChaincodeHeaderExtension fails, "nocid" when ChaincodeId is absent.
HdrExt(dec, name) == [dec |-> dec, Name |-> name]
HdrExts == {HdrExt("bad", ""), HdrExt("nocid", ""), HdrExt("ok", LSCC), HdrExt("ok", "mycc")}

\* args[1], the serialized envelope.  b = "nil" for a nil slice, "empty" for a
\* slice of length 0, "bytes" otherwise.  layer names the first layer whose
\* decoding fails ("env", "payl", "chdr", "tx"), "nohdr" says the payload
\* decodes to a record without Header, "ok" says every layer decodes.
EnvBytes(b, layer, ch, type, ext, actions) ==
    [b |-> b, layer |-> layer, ChannelId |-> ch, Type |-> type, ext |-> ext,
     Actions |-> actions]
NilEnv == EnvBytes("nil", "env", "", "", HdrExt("bad", ""), <<>>)
\* zero bytes decode to an Envelope without Payload, whose Payload decodes to
\* a record without Header
EmptyEnv == EnvBytes("empty", "nohdr", "", "", HdrExt("bad", ""), <<>>)
BrokenEnv(layer) == EnvBytes("bytes", layer, "", "", HdrExt("bad", ""), <<>>)
TypedEnv(layer, type, ext, actions) == EnvBytes("bytes", layer, "ch1", type, ext, actions)
TxEnv(ext, actions) == TypedEnv("ok", ENDORSER_TRANSACTION, ext, actions)

\* a transaction on a second channel
Ch2Env ==
    EnvBytes("bytes", "ok", "ch2", ENDORSER_TRANSACTION, HdrExt("ok", "mycc"),
             <<ActFailPolicy>>)

PrefixEnvs ==
    {NilEnv, EmptyEnv}
    \cup {BrokenEnv(l) : l \in {"env", "payl", "nohdr", "chdr"}}
    \cup {TypedEnv("ok", "CONFIG", HdrExt("ok", "mycc"), <<>>),
          TypedEnv("ok", "CONFIG", HdrExt("ok", LSCC), <<ActPassDeploy>>),
          TypedEnv("tx", "CONFIG", HdrExt("ok", "mycc"), <<>>),
          TypedEnv("tx", ENDORSER_TRANSACTION, HdrExt("ok", "mycc"), <<>>)}

\* header extensions that decode, with their chaincode id
NamedExts == {HdrExt("ok", LSCC), HdrExt("ok", "mycc")}

Envelopes ==
    PrefixEnvs
    \cup {TxEnv(x, a) : x \in NamedExts, a \in SeqsUpTo(CoreActions, MaxActions)}
    \cup {TxEnv(HdrExt("ok", "mycc"), <<a>>) : a \in ByteActions}
    \cup {TxEnv(x, <<a>>) : x \in HdrExts, a \in GuardActions}

\* args[2], the serialized policy: compiles says whether NewPolicy succeeds,
\* threshold is the number of valid signatures the compiled policy asks for.
PolicyBytes(b, compiles, k) == [b |-> b, compiles |-> compiles, threshold |-> k]
NilPolicy == PolicyBytes("nil", FALSE, 0)
EmptyPolicy == PolicyBytes("empty", FALSE, 0)
BrokenPolicy == PolicyBytes("bytes", FALSE, 0)
Threshold(k) == PolicyBytes("bytes", TRUE, k)
Policies == {NilPolicy, EmptyPolicy, BrokenPolicy, Threshold(1), Threshold(2)}

\* args[0] and anything past args[2] are opaque byte strings
Opaque(name) == [b |-> "bytes", name |-> name]
NilArg == [b |-> "nil", name |-> ""]

\* Every envelope is validated against the compiling policies; the policies
\* that are absent or do not compile stop the call before the transaction
\* is read, and are paired with one envelope of each shape.
ShapeEnvs ==
    PrefixEnvs
    \cup {TxEnv(x, <<>>) : x \in HdrExts}
    \cup {TxEnv(HdrExt("ok", LSCC), <<ActPassDeploy, ActPassInvoke>>), Ch2Env}
ArgLists ==
    {<<>>, <<Opaque("f")>>}
    \cup {<<Opaque("f"), e>> : e \in PrefixEnvs}
    \cup {<<Opaque("f"), e, p>> : e \in ShapeEnvs, p \in Policies}
    \cup {<<Opaque("f"), e, p>> : e \in Envelopes, p \in {Threshold(1), Threshold(2)}}


\* ------------------------------------------------------------ Go slices
\* A []byte value: alias says it points into the backing array of
\* prespBytes (prespArr), own holds the bytes of a freshly allocated array.
Slice(alias, len, own) == [alias |-> alias, len |-> len, own |-> own]

\* The bytes a slice denotes, given the present contents of prespArr
SliceBytes(sl, arr) == IF sl.alias THEN SubSeq(arr, 1, sl.len) ELSE sl.own

\* The backing array of a byte string P held with `spare` unused capacity
BackingArray(P, spare) == P \o [i \in 1..spare |-> 0]

\* append(arr[:n], elems...): within capacity the elements are written into
\* the backing array and the result shares it; beyond capacity a new array
\* is allocated and the backing array is left alone.
GoAppend(arr, n, elems) ==
    IF n + Len(elems) <= Len(arr)
    THEN [arr |-> [i \in 1..Len(arr) |->
                      IF n < i /\ i <= n + Len(elems) THEN elems[i - n] ELSE arr[i]],
          slice |-> Slice(TRUE, n + Len(elems), <<>>)]
    ELSE [arr |-> arr,
          slice |-> Slice(FALSE, n + Len(elems), SubSeq(arr, 1, n) \o elems)]

\* &common.SignedData{Data: append(prespBytes, endorsement.Endorser...),
\*                    Identity: endorsement.Endorser, Signature: endorsement.Signature}
SignedData(data, endorsement) ==
    [Data |-> data, Identity |-> endorsement.Endorser,
     Signature |-> endorsement.Signature]

\* the endorsement loop: iteration i assigns signatureSet[i]
RECURSIVE EndorsementLoop(_, _, _, _, _)
EndorsementLoop(arr, n, ends, i, set) ==
    IF i > Len(ends)
    THEN [arr |-> arr, set |-> set]
    ELSE LET r == GoAppend(arr, n, ends[i].Endorser)
         IN  EndorsementLoop(r.arr, n, ends, i + 1,
                             [set EXCEPT ![i] = SignedData(r.slice, ends[i])])

\* Variant of BuildSignatureSet that walks the endorsements last to first
Reverse(q) == [i \in 1..Len(q) |-> q[Len(q) + 1 - i]]
BuildSignatureSet_Reversed(c) ==
    EndorsementLoop(BackingArray(c.prp, c.spare), Len(c.prp), Reverse(c.Endorsements), 1,
                    [i \in 1..Len(c.Endorsements) |-> Null])

\* make([]*common.SignedData, len(cap.Action.Endorsements)) and the loop
BuildSignatureSet(c) ==
    EndorsementLoop(BackingArray(c.prp, c.spare), Len(c.prp), c.Endorsements, 1,
                    [i \in 1..Len(c.Endorsements) |-> Null])

\* What the evaluator reads when it is handed the set: each entry's bytes
SignedDataView(set, arr) ==
    [i \in 1..Len(set) |->
        [Data |-> SliceBytes(set[i].Data, arr), Identity |-> set[i].Identity,
         Signature |-> set[i].Signature]]

\* ------------------------------------------------------- policy evaluator
\* policy.Evaluate: at least `threshold` entries carry a signature that
\* verifies, under the entry's identity, over the entry's data
ValidSignature(sd) == sd.Signature = Sign(sd.Identity, sd.Data)
PolicyEvaluate(pol, view) ==
    Cardinality({i \in 1..Len(view) : ValidSignature(view[i])}) >= pol.threshold

\* ------------------------------------------------------------- responses
MsgArgCount == "Incorrect number of arguments"
MsgNoBlock == "No block to validate"
MsgNoPolicy == "No policy supplied"
MsgEnvelope == "GetEnvelope failed"
MsgPayload == "GetPayload failed"
MsgChannelHeader == "UnmarshalChannelHeader failed"
MsgNewPolicy == "pProvider.NewPolicy failed"
MsgType == "Only Endorser Transactions are supported"
MsgTransaction == "GetTransaction failed"
MsgActionPayload == "GetChaincodeActionPayload failed"
MsgEvaluate == "VSCC error: policy evaluation failed"
MsgHeaderExtension == "GetChaincodeHeaderExtension failed"
MsgProposalPayload == "GetChaincodeProposalPayload failed"
MsgInvocationSpec == "Unmarshal ChaincodeInvocationSpec failed"
MsgInvalidInvocation == "VSCC error: committing invalid vscc invocation"
MsgInvalidFunction == "VSCC error: committing an invocation of function of lscc is invalid"
MsgNilDereference == "invalid memory address or nil pointer dereference"
MsgIndexOutOfRange == "index out of range"

NoResponse == [status |-> "NONE", msg |-> ""]
Success == [status |-> "OK", msg |-> ""]
Error(msg) == [status |-> "ERROR", msg |-> msg]
Panic(msg) == [status |-> "PANIC", msg |-> msg]

\* ------------------------------------------------- ValidateLSCCInvocation
\* The error returned ("" for nil) and whether Args[0] was read.
GuardResult(err, read, f) == [err |-> err, read |-> read, lsccFunc |-> f]

\* Variant of LsccSwitch that matches the function name without regard to
\* case (strings.EqualFold in place of the switch on the exact string).
LowerCase(f) ==
    CASE f \in {"Deploy", "DEPLOY"} -> "deploy"
      [] f \in {"Upgrade", "UPGRADE"} -> "upgrade"
      [] OTHER -> f
LsccSwitch_IgnoreCase(lsccFunc) ==
    CASE LowerCase(lsccFunc) = DEPLOY -> ""
      [] LowerCase(lsccFunc) = UPGRADE -> ""
      [] OTHER -> MsgInvalidFunction

\* switch lsccFunc: the DEPLOY case has an empty body and leaves the switch
\* to the final return nil; UPGRADE returns nil; default returns the error.
LsccSwitch(lsccFunc) ==
    CASE lsccFunc = DEPLOY -> ""
      [] lsccFunc = UPGRADE -> ""
      [] OTHER -> MsgInvalidFunction

\* Variant of InvocationSpecAbsent without the test of Input.Args
InvocationSpecAbsent_NoArgsTest(cpp) == cpp.dec \in {"nospec", "noinput"}

\* cis == nil || cis.ChaincodeSpec == nil || cis.ChaincodeSpec.Input == nil
\*   || cis.ChaincodeSpec.Input.Args == nil
InvocationSpecAbsent(cpp) == cpp.dec \in {"nospec", "noinput", "noargs"}

\* Args[0] of an argument list without entries is an index out of range
ValidateLSCCInvocation(c) ==
    LET cpp == c.ChaincodeProposalPayload IN
    CASE cpp.dec = "badcpp" -> GuardResult(MsgProposalPayload, FALSE, "")
      [] cpp.dec = "badcis" -> GuardResult(MsgInvocationSpec, FALSE, "")
      [] InvocationSpecAbsent(cpp) -> GuardResult(MsgInvalidInvocation, FALSE, "")
      [] Len(cpp.Args) = 0 -> GuardResult(MsgIndexOutOfRange, TRUE, "")
      [] OTHER -> GuardResult(LsccSwitch(cpp.Args[1]), TRUE, cpp.Args[1])


\* ------------------------------------------------------------------ state
\* The channel ids of the model, and the table the host has set up: one
\* membership-provider manager per channel.
ChannelIds == {"", "ch1", "ch2"}
MspTable == [ch \in ChannelIds |-> [chain |-> ch]]

Init ==
    /\ pc = [c \in Calls |-> "idle"]
    /\ args = [c \in Calls |-> <<>>]
    /\ payl = [c \in Calls |-> Null]
    /\ chdr = [c \in Calls |-> Null]
    /\ policy = [c \in Calls |-> Null]
    /\ tx = [c \in Calls |-> Null]
    /\ act = [c \in Calls |-> 0]
    /\ cap = [c \in Calls |-> Null]
    /\ prespArr = [c \in Calls |-> <<>>]
    /\ signatureSet = [c \in Calls |-> <<>>]
    /\ response = [c \in Calls |-> NoResponse]
    /\ log = [c \in Calls |-> <<>>]
    /\ evaluated = [c \in Calls |-> <<>>]
    /\ mspMap = MspTable

\* an entry of the log: the collaborator called and the action it was for
Event(op, n, note) == [op |-> op, n |-> n, note |-> note]
Logged(c, op, n, note) == log' = [log EXCEPT ![c] = Append(@, Event(op, n, note))]

\* return shim.Error(...), shim.Success(nil), or a run-time panic
Return(c, r) ==
    /\ response' = [response EXCEPT ![c] = r]
    /\ pc' = [pc EXCEPT ![c] = "done"]
Goto(c, label) ==
    /\ pc' = [pc EXCEPT ![c] = label]
    /\ UNCHANGED response

locals == <<payl, chdr, policy, tx, act, cap, prespArr, signatureSet>>

\* -------------------------------------------------------- Invoke, by step
\* the peer calls Invoke with an argument list
Invoke(c, a) ==
    /\ pc[c] = "idle"
    /\ args' = [args EXCEPT ![c] = a]
    /\ pc' = [pc EXCEPT ![c] = "args"]
    /\ UNCHANGED <<locals, response, log, evaluated, mspMap>>

\* Variant of ArgumentCheck that asks for exactly three arguments
ArgumentCheck_ExactCount(a) ==
    IF Len(a) # MinArgs THEN MsgArgCount
    ELSE IF a[2].b = "nil" THEN MsgNoBlock
    ELSE IF a[3].b = "nil" THEN MsgNoPolicy
    ELSE ""

\* len(args) < 3; args[1] == nil; args[2] == nil  ("" when all three pass)
ArgumentCheck(a) ==
    IF Len(a) < MinArgs THEN MsgArgCount
    ELSE IF a[2].b = "nil" THEN MsgNoBlock
    ELSE IF a[3].b = "nil" THEN MsgNoPolicy
    ELSE ""

CheckArgs(c) ==
    /\ pc[c] = "args"
    /\ IF ArgumentCheck(args[c]) # ""
       THEN Return(c, Error(ArgumentCheck(args[c])))
       ELSE Goto(c, "env")
    /\ UNCHANGED <<args, locals, log, evaluated, mspMap>>

\* env, err := utils.GetEnvelopeFromBlock(args[1])
GetEnvelope(c) ==
    /\ pc[c] = "env"
    /\ Logged(c, "GetEnvelopeFromBlock", 0, "")
    /\ IF args[c][2].layer = "env"
       THEN Return(c, Error(MsgEnvelope))
       ELSE Goto(c, "payl")
    /\ UNCHANGED <<args, locals, evaluated, mspMap>>

\* the *common.Payload the envelope's payload decodes to
PayloadOf(e) ==
    [Header |-> IF e.layer = "nohdr" THEN Null
                ELSE [ChannelHeader |-> [ok |-> e.layer # "chdr",
                                         ChannelId |-> e.ChannelId,
                                         Type |-> e.Type, Extension |-> e.ext]],
     Data |-> [ok |-> e.layer # "tx", Actions |-> e.Actions]]

\* payl, err := utils.GetPayload(env)
GetPayload(c) ==
    /\ pc[c] = "payl"
    /\ Logged(c, "GetPayload", 0, "")
    /\ IF args[c][2].layer = "payl"
       THEN /\ Return(c, Error(MsgPayload))
            /\ UNCHANGED payl
       ELSE /\ Goto(c, "chdr")
            /\ payl' = [payl EXCEPT ![c] = PayloadOf(args[c][2])]
    /\ UNCHANGED <<args, chdr, policy, tx, act, cap, prespArr, signatureSet, evaluated, mspMap>>

\* chdr, err := utils.UnmarshalChannelHeader(payl.Header.ChannelHeader)
UnmarshalChannelHeader(c) ==
    /\ pc[c] = "chdr"
    /\ IF payl[c].Header = Null
       THEN /\ Return(c, Panic(MsgNilDereference))
            /\ UNCHANGED <<chdr, log>>
       ELSE /\ Logged(c, "UnmarshalChannelHeader", 0, "")
            /\ IF ~payl[c].Header.ChannelHeader.ok
               THEN /\ Return(c, Error(MsgChannelHeader))
                    /\ UNCHANGED chdr
               ELSE /\ Goto(c, "policy")
                    /\ chdr' = [chdr EXCEPT ![c] =
                                  [ChannelId |-> payl[c].Header.ChannelHeader.ChannelId,
                                   Type |-> payl[c].Header.ChannelHeader.Type]]
    /\ UNCHANGED <<args, payl, policy, tx, act, cap, prespArr, signatureSet, evaluated, mspMap>>

\* mspmgmt.GetManagerForChain(chainID): a lookup in the table
GetManagerForChain(chainID) == mspMap[chainID]

\* Variant of NewPolicy that keeps the compiled policy in one field shared by
\* all calls and compiles only when the field is empty
NewPolicy_SharedPolicy(c) ==
    /\ pc[c] = "policy"
    /\ Logged(c, "NewPolicy", 0, chdr[c].ChannelId)
    /\ IF \E d \in Calls : policy[d] # Null
       THEN /\ Goto(c, "type")
            /\ policy' = [policy EXCEPT ![c] =
                            policy[CHOOSE d \in Calls : policy[d] # Null]]
       ELSE IF ~args[c][3].compiles
       THEN /\ Return(c, Error(MsgNewPolicy))
            /\ UNCHANGED policy
       ELSE /\ Goto(c, "type")
            /\ policy' = [policy EXCEPT ![c] =
                            [mgr |-> GetManagerForChain(chdr[c].ChannelId),
                             threshold |-> args[c][3].threshold]]
    /\ UNCHANGED <<args, payl, chdr, tx, act, cap, prespArr, signatureSet, evaluated, mspMap>>

\* Variant of NewPolicy that asks for the manager of the default chain
NewPolicy_DefaultChain(c) ==
    /\ pc[c] = "policy"
    /\ Logged(c, "NewPolicy", 0, "")
    /\ IF ~args[c][3].compiles
       THEN /\ Return(c, Error(MsgNewPolicy))
            /\ UNCHANGED policy
       ELSE /\ Goto(c, "type")
            /\ policy' = [policy EXCEPT ![c] =
                            [mgr |-> GetManagerForChain(""),
                             threshold |-> args[c][3].threshold]]
    /\ UNCHANGED <<args, payl, chdr, tx, act, cap, prespArr, signatureSet, evaluated, mspMap>>

\* mgr := mspmgmt.GetManagerForChain(chdr.ChannelId)
\* policy, _, err := cauthdsl.NewPolicyProvider(mgr).NewPolicy(args[2])
NewPolicy(c) ==
    /\ pc[c] = "policy"
    /\ Logged(c, "NewPolicy", 0, chdr[c].ChannelId)
    /\ IF ~args[c][3].compiles
       THEN /\ Return(c, Error(MsgNewPolicy))
            /\ UNCHANGED policy
       ELSE /\ Goto(c, "type")
            /\ policy' = [policy EXCEPT ![c] =
                            [mgr |-> GetManagerForChain(chdr[c].ChannelId),
                             threshold |-> args[c][3].threshold]]
    /\ UNCHANGED <<args, payl, chdr, tx, act, cap, prespArr, signatureSet, evaluated, mspMap>>

\* Variant of CheckType that skips a transaction of another type as valid
CheckType_Skip(c) ==
    /\ pc[c] = "type"
    /\ IF chdr[c].Type # ENDORSER_TRANSACTION
       THEN Return(c, Success)
       ELSE Goto(c, "tx")
    /\ UNCHANGED <<args, locals, log, evaluated, mspMap>>

\* if common.HeaderType(chdr.Type) != common.HeaderType_ENDORSER_TRANSACTION
CheckType(c) ==
    /\ pc[c] = "type"
    /\ IF chdr[c].Type # ENDORSER_TRANSACTION
       THEN Return(c, Error(MsgType))
       ELSE Goto(c, "tx")
    /\ UNCHANGED <<args, locals, log, evaluated, mspMap>>

\* tx, err := utils.GetTransaction(payl.Data)
GetTransaction(c) ==
    /\ pc[c] = "tx"
    /\ Logged(c, "GetTransaction", 0, "")
    /\ IF ~payl[c].Data.ok
       THEN /\ Return(c, Error(MsgTransaction))
            /\ UNCHANGED <<tx, act>>
       ELSE /\ Goto(c, "loop")
            /\ tx' = [tx EXCEPT ![c] = [Actions |-> payl[c].Data.Actions]]
            /\ act' = [act EXCEPT ![c] = 1]
    /\ UNCHANGED <<args, payl, chdr, policy, cap, prespArr, signatureSet, evaluated, mspMap>>


\* Variant of ReturnSuccess that may leave the loop after the first action
ReturnSuccess_AfterFirstAction(c) ==
    /\ pc[c] = "loop"
    /\ act[c] > 1 \/ act[c] > Len(tx[c].Actions)
    /\ Return(c, Success)
    /\ UNCHANGED <<args, locals, log, evaluated, mspMap>>

\* for _, act := range tx.Actions: the range is exhausted
\* return shim.Success(nil)
ReturnSuccess(c) ==
    /\ pc[c] = "loop"
    /\ act[c] > Len(tx[c].Actions)
    /\ Return(c, Success)
    /\ UNCHANGED <<args, locals, log, evaluated, mspMap>>

\* cap, err := utils.GetChaincodeActionPayload(act.Payload)
GetChaincodeActionPayload(c) ==
    /\ pc[c] = "loop"
    /\ act[c] <= Len(tx[c].Actions)
    /\ Logged(c, "GetChaincodeActionPayload", act[c], "")
    /\ IF tx[c].Actions[act[c]].dec = "bad"
       THEN /\ Return(c, Error(MsgActionPayload))
            /\ UNCHANGED cap
       ELSE /\ Goto(c, "build")
            /\ cap' = [cap EXCEPT ![c] = tx[c].Actions[act[c]]]
    /\ UNCHANGED <<args, payl, chdr, policy, tx, act, prespArr, signatureSet, evaluated, mspMap>>

\* prespBytes := cap.Action.ProposalResponsePayload, and the endorsement loop
SignatureSetBuilder(c) ==
    /\ pc[c] = "build"
    /\ IF cap[c].dec = "noaction"
       THEN /\ Return(c, Panic(MsgNilDereference))
            /\ UNCHANGED <<prespArr, signatureSet, log>>
       ELSE /\ Goto(c, "eval")
            /\ Logged(c, "BuildSignatureSet", act[c], "")
            /\ prespArr' = [prespArr EXCEPT ![c] = BuildSignatureSet(cap[c]).arr]
            /\ signatureSet' = [signatureSet EXCEPT ![c] = BuildSignatureSet(cap[c]).set]
    /\ UNCHANGED <<args, payl, chdr, policy, tx, act, cap, evaluated, mspMap>>

\* Variant of Evaluate that does not return when the evaluation fails
Evaluate_NoReturn(c) ==
    /\ pc[c] = "eval"
    /\ LET view == SignedDataView(signatureSet[c], prespArr[c])
           ok == PolicyEvaluate(policy[c], view)
       IN  /\ evaluated' = [evaluated EXCEPT ![c] =
                              Append(@, [n |-> act[c], set |-> view, ok |-> ok])]
           /\ Logged(c, "Evaluate", act[c], IF ok THEN "ok" ELSE "err")
           /\ Goto(c, "hdrext")
    /\ UNCHANGED <<args, locals, mspMap>>

\* Variant of Evaluate over a signature set kept in one buffer shared by all
\* calls
Evaluate_SharedSet(c) ==
    /\ pc[c] = "eval"
    /\ LET view == SignedDataView(signatureSet[1], prespArr[1])
           ok == PolicyEvaluate(policy[c], view)
       IN  /\ evaluated' = [evaluated EXCEPT ![c] =
                              Append(@, [n |-> act[c], set |-> view, ok |-> ok])]
           /\ Logged(c, "Evaluate", act[c], IF ok THEN "ok" ELSE "err")
           /\ IF ~ok THEN Return(c, Error(MsgEvaluate)) ELSE Goto(c, "hdrext")
    /\ UNCHANGED <<args, locals, mspMap>>

\* err = policy.Evaluate(signatureSet); if err != nil { return shim.Error(...) }
Evaluate(c) ==
    /\ pc[c] = "eval"
    /\ LET view == SignedDataView(signatureSet[c], prespArr[c])
           ok == PolicyEvaluate(policy[c], view)
       IN  /\ evaluated' = [evaluated EXCEPT ![c] =
                              Append(@, [n |-> act[c], set |-> view, ok |-> ok])]
           /\ Logged(c, "Evaluate", act[c], IF ok THEN "ok" ELSE "err")
           /\ IF ~ok THEN Return(c, Error(MsgEvaluate)) ELSE Goto(c, "hdrext")
    /\ UNCHANGED <<args, locals, mspMap>>

\* hdrExt, err := utils.GetChaincodeHeaderExtension(payl.Header)
GetChaincodeHeaderExtension(c) ==
    /\ pc[c] = "hdrext"
    /\ Logged(c, "GetChaincodeHeaderExtension", act[c], "")
    /\ IF payl[c].Header.ChannelHeader.Extension.dec = "bad"
       THEN Return(c, Error(MsgHeaderExtension))
       ELSE Goto(c, "lscc")
    /\ UNCHANGED <<args, locals, evaluated, mspMap>>

\* Variant of TargetsLSCC that guards every action
TargetsLSCC_Always(hdrExt) == TRUE

\* hdrExt.ChaincodeId.Name == "lscc"
TargetsLSCC(hdrExt) == hdrExt.Name = LSCC

\* Variant of CheckLSCC that takes the decision to guard for the first
\* action only
CheckLSCC_FirstActionOnly(c) ==
    /\ pc[c] = "lscc"
    /\ LET hdrExt == payl[c].Header.ChannelHeader.Extension
           r == ValidateLSCCInvocation(cap[c])
       IN  IF hdrExt.dec = "nocid"
           THEN /\ Return(c, Panic(MsgNilDereference))
                /\ UNCHANGED <<act, log>>
           ELSE IF TargetsLSCC(hdrExt) /\ act[c] = 1
           THEN /\ Logged(c, "ValidateLSCCInvocation", act[c],
                          IF r.read THEN "Args[0]" ELSE "")
                /\ IF r.err = MsgIndexOutOfRange
                   THEN Return(c, Panic(r.err)) /\ UNCHANGED act
                   ELSE IF r.err # ""
                   THEN Return(c, Error(r.err)) /\ UNCHANGED act
                   ELSE Goto(c, "loop") /\ act' = [act EXCEPT ![c] = @ + 1]
           ELSE /\ Goto(c, "loop")
                /\ act' = [act EXCEPT ![c] = @ + 1]
                /\ UNCHANGED log
    /\ UNCHANGED <<args, payl, chdr, policy, tx, cap, prespArr, signatureSet, evaluated, mspMap>>

\* if hdrExt.ChaincodeId.Name == "lscc" { err = vscc.ValidateLSCCInvocation(cap) ... }
\* and the end of the loop body
CheckLSCC(c) ==
    /\ pc[c] = "lscc"
    /\ LET hdrExt == payl[c].Header.ChannelHeader.Extension
           r == ValidateLSCCInvocation(cap[c])
       IN  IF hdrExt.dec = "nocid"
           THEN /\ Return(c, Panic(MsgNilDereference))
                /\ UNCHANGED <<act, log>>
           ELSE IF TargetsLSCC(hdrExt)
           THEN /\ Logged(c, "ValidateLSCCInvocation", act[c],
                          IF r.read THEN "Args[0]" ELSE "")
                /\ IF r.err = MsgIndexOutOfRange
                   THEN Return(c, Panic(r.err)) /\ UNCHANGED act
                   ELSE IF r.err # ""
                   THEN Return(c, Error(r.err)) /\ UNCHANGED act
                   ELSE Goto(c, "loop") /\ act' = [act EXCEPT ![c] = @ + 1]
           ELSE /\ Goto(c, "loop")
                /\ act' = [act EXCEPT ![c] = @ + 1]
                /\ UNCHANGED log
    /\ UNCHANGED <<args, payl, chdr, policy, tx, cap, prespArr, signatureSet, evaluated, mspMap>>

\* one step of the call c inside Invoke
Step(c) ==
    \/ CheckArgs(c)
    \/ GetEnvelope(c)
    \/ GetPayload(c)
    \/ UnmarshalChannelHeader(c)
    \/ NewPolicy(c)
    \/ CheckType(c)
    \/ GetTransaction(c)
    \/ ReturnSuccess(c)
    \/ GetChaincodeActionPayload(c)
    \/ SignatureSetBuilder(c)
    \/ Evaluate(c)
    \/ GetChaincodeHeaderExtension(c)
    \/ CheckLSCC(c)

\* one validation call
Next ==
    \/ \E a \in ArgLists : Invoke(1, a)
    \/ Step(1)

Spec == Init /\ [][Next]_vars


\* Two validation calls made by the host, their steps interleaved.  The
\* argument lists differ in length and in what follows args[2].
PairEnvelopes ==
    {NilEnv, BrokenEnv("env"), BrokenEnv("payl"), BrokenEnv("nohdr"), BrokenEnv("chdr"),
     TypedEnv("ok", "CONFIG", HdrExt("ok", "mycc"), <<>>),
     TypedEnv("tx", ENDORSER_TRANSACTION, HdrExt("ok", "mycc"), <<>>),
     TxEnv(HdrExt("ok", LSCC), <<ActPassDeploy>>),
     TxEnv(HdrExt("ok", LSCC), <<ActPassInvoke>>),
     TxEnv(HdrExt("ok", "mycc"), <<ActFailPolicy>>),
     TxEnv(HdrExt("ok", "mycc"), <<ActAliased>>),
     Ch2Env}
\* args[1], args[2] of the pair: every envelope with a compiling policy, and
\* one envelope with a policy that does not compile
PairInputs ==
    {<<e, Threshold(1)>> : e \in PairEnvelopes}
    \cup {<<TxEnv(HdrExt("ok", LSCC), <<ActPassDeploy>>), BrokenPolicy>>}
ExtraArgs == SeqsUpTo({Opaque("x"), NilArg}, MaxExtraArgs)
PairArgLists ==
    {<<>>, <<Opaque("f")>>}
    \cup {<<Opaque("f"), e>> : e \in {NilEnv, TxEnv(HdrExt("ok", LSCC), <<ActPassDeploy>>)}}
    \cup {<<Opaque("f")>> \o ep \o x : ep \in PairInputs, x \in ExtraArgs}

NextPair ==
    \E c \in Calls :
        \/ \E a \in PairArgLists : Invoke(c, a)
        \/ Step(c)

SpecPair == Init /\ [][NextPair]_vars

\* ------------------------------------------------------------------ claims
Done(c) == pc[c] = "done"
Rejected(c) == Done(c) /\ response[c].status = "ERROR"
Accepted(c) == Done(c) /\ response[c].status = "OK"
Panicked(c) == Done(c) /\ response[c].status = "PANIC"

\* the k-th decoded action of call c's transaction
ActionOf(c, k) == tx[c].Actions[k]

\* C1: whenever a signature set is handed to the policy evaluator, every
\* entry i's data is the action's proposal response payload followed
\* immediately by endorsement i's endorser identity, whatever the number of
\* endorsements and the spare capacity of the payload's buffer.
C1_ByteExactness ==
    \A k \in 1..Len(evaluated[1]) :
        LET a == ActionOf(1, evaluated[1][k].n)
        IN  \A i \in 1..Len(a.Endorsements) :
                evaluated[1][k].set[i].Data = a.prp \o a.Endorsements[i].Endorser


\* The failure kinds of the error taxonomy, as sets of the messages of the code
ArgumentError == {MsgArgCount, MsgNoBlock, MsgNoPolicy}
UnsupportedTypeError == {MsgType}
PolicyEvaluationError == {MsgEvaluate}
LifecycleInvocationError == {MsgInvalidInvocation, MsgInvalidFunction}

\* the events of call c's log that are calls of op
Events(c, op) == {j \in 1..Len(log[c]) : log[c][j].op = op}
\* op was called for action k
Ran(c, op, k) == \E j \in Events(c, op) : log[c][j].n = k
\* policy.Evaluate was called for action k and returned nil
EvaluatedOK(c, k) ==
    \E j \in 1..Len(evaluated[c]) : evaluated[c][j].n = k /\ evaluated[c][j].ok

\* The signature set the data model prescribes for an action: entry i is
\* (P ++ I_i, I_i, signature_i)
PrescribedSet(a) ==
    [i \in 1..Len(a.Endorsements) |->
        [Data |-> a.prp \o a.Endorsements[i].Endorser,
         Identity |-> a.Endorsements[i].Endorser,
         Signature |-> a.Endorsements[i].Signature]]

\* The lifecycle guard's contract: the invocation spec is present and its
\* first argument is on the allow-list
GuardContract(a) ==
    /\ a.ChaincodeProposalPayload.dec = "ok"
    /\ a.ChaincodeProposalPayload.Args[1] \in {"deploy", "upgrade"}

\* the call's transaction was decoded: its arguments are present, the
\* envelope unpacks, the policy compiles, the type is ENDORSER_TRANSACTION
Unpacked(c) == tx[c] # Null
\* the header extension of call c's payload header
HdrExtOf(c) == payl[c].Header.ChannelHeader.Extension
\* the payload header names the lifecycle chaincode as the target
Lifecycle(c) == HdrExtOf(c).dec = "ok" /\ HdrExtOf(c).Name = "lscc"
\* every record below the transaction decodes, with its nested records present
RecordsPresent(c) ==
    /\ HdrExtOf(c).dec = "ok"
    /\ \A k \in 1..Len(tx[c].Actions) : ActionOf(c, k).dec = "ok"

\* C2: for a call whose arguments are present, whose envelope unpacks, whose
\* policy compiles and whose type is ENDORSER_TRANSACTION, the verdict is
\* Accepted exactly when every action's signature set satisfies the policy
\* and every lifecycle action passes the guard; otherwise it is Rejected.
C2_ValidIffAllActionsPass ==
    (Done(1) /\ Unpacked(1) /\ RecordsPresent(1)) =>
        LET all == \A k \in 1..Len(tx[1].Actions) :
                      /\ PolicyEvaluate(policy[1], PrescribedSet(ActionOf(1, k)))
                      /\ Lifecycle(1) => GuardContract(ActionOf(1, k))
        IN  /\ Accepted(1) <=> all
            /\ ~all => Rejected(1)

\* the envelope, its payload and its channel header decode
WellFormedEnvelope(e) == e.b = "bytes" /\ e.layer \in {"ok", "tx"}

\* C4: a well-formed envelope whose channel header type is not
\* ENDORSER_TRANSACTION is rejected with UnsupportedTypeError, whatever the
\* policy bytes are, compiling or not.
C4_UnsupportedTypeWhateverPolicy ==
    (/\ Done(1)
     /\ Len(args[1]) >= 3
     /\ WellFormedEnvelope(args[1][2])
     /\ args[1][3].b = "bytes"
     /\ args[1][2].Type # "ENDORSER_TRANSACTION")
        => Rejected(1) /\ response[1].msg \in UnsupportedTypeError

\* C5: envelope bytes or policy bytes that are absent or of length zero are
\* rejected with ArgumentError before any decoding, compilation or evaluation.
C5_EmptyArgumentsRejected ==
    (/\ pc[1] # "idle"
     /\ Len(args[1]) >= 3
     /\ \/ args[1][2].b \in {"nil", "empty"}
        \/ args[1][3].b \in {"nil", "empty"})
        => /\ log[1] = <<>>
           /\ Done(1) => Rejected(1) /\ response[1].msg \in ArgumentError


\* the last collaborator call of call c
LastEvent(c) == IF log[c] = <<>> THEN Event("", 0, "") ELSE log[c][Len(log[c])]

\* C3: if action k is the first action whose policy evaluation fails, the
\* call is rejected with the policy-evaluation failure while the loop is at
\* action k, the evaluator has been called exactly k times, and nothing was
\* decoded, built, evaluated or guarded for an action after k, nor anything
\* past the evaluation for action k itself.
C3_ShortCircuit ==
    \A j \in 1..Len(evaluated[1]) :
        (~evaluated[1][j].ok /\ \A i \in 1..(j - 1) : evaluated[1][i].ok) =>
            LET k == evaluated[1][j].n
            IN  /\ Rejected(1)
                /\ response[1].msg \in PolicyEvaluationError
                /\ act[1] = k
                /\ j = k
                /\ Len(evaluated[1]) = k
                /\ Cardinality(Events(1, "Evaluate")) = k
                /\ Cardinality(Events(1, "GetChaincodeActionPayload")) = k
                /\ Cardinality(Events(1, "BuildSignatureSet")) = k
                /\ \A e \in 1..Len(log[1]) :
                      /\ log[1][e].n <= k
                      /\ log[1][e].op \in {"GetChaincodeHeaderExtension",
                                           "ValidateLSCCInvocation"}
                            => log[1][e].n < k
                /\ LastEvent(1) = Event("Evaluate", k, "err")

\* [A(pass), B(fail-policy), C(pass)]: rejected after exactly 2 evaluations
C3_Witness ==
    /\ Rejected(1)
    /\ Unpacked(1)
    /\ tx[1].Actions = <<ActPassDeploy, ActFailPolicy, ActPassDeploy>>
    /\ Len(evaluated[1]) = 2
    /\ evaluated[1][1].ok /\ ~evaluated[1][2].ok

\* C7: when the guard runs on an invocation spec whose argument list is
\* present, it accepts exactly when argument[0] is "deploy" or "upgrade",
\* whatever the remaining arguments; every other name, the empty name and
\* names differing only in case included, is rejected with
\* LifecycleInvocationError.
C7_AllowList ==
    (/\ LastEvent(1).op = "ValidateLSCCInvocation"
     /\ cap[1].ChaincodeProposalPayload.dec = "ok") =>
        LET f == cap[1].ChaincodeProposalPayload.Args[1]
        IN  IF f \in {"deploy", "upgrade"}
            THEN /\ act[1] = LastEvent(1).n + 1
                 /\ pc[1] = "loop" \/ Accepted(1)
            ELSE /\ Rejected(1)
                 /\ response[1].msg \in LifecycleInvocationError
                 /\ response[1].msg = MsgInvalidFunction

\* a name differing only in case from "deploy", with a further argument
C7_Witness ==
    /\ Rejected(1)
    /\ LastEvent(1).op = "ValidateLSCCInvocation"
    /\ cap[1].ChaincodeProposalPayload = Cpp("ok", <<"Deploy", "x">>)
    /\ response[1].msg = MsgInvalidFunction

\* C8: for every action of a finished call the guard was run exactly when
\* the target chaincode is "lscc" and that action's policy evaluation
\* succeeded; a lifecycle action whose policy is satisfied and whose guard
\* fails makes the call Rejected.
C8_GuardAfterPolicy ==
    (Done(1) /\ Unpacked(1)) =>
        \A k \in 1..Len(tx[1].Actions) :
            /\ Ran(1, "ValidateLSCCInvocation", k)
                  <=> (Lifecycle(1) /\ EvaluatedOK(1, k))
            /\ (Lifecycle(1) /\ EvaluatedOK(1, k) /\ ~GuardContract(ActionOf(1, k)))
                  => /\ Rejected(1)
                     /\ act[1] = k
                     /\ response[1].msg \notin PolicyEvaluationError

\* a lifecycle action with a satisfied policy and a failing guard
C8_Witness ==
    /\ Rejected(1)
    /\ Unpacked(1)
    /\ Lifecycle(1)
    /\ EvaluatedOK(1, 2)
    /\ Ran(1, "ValidateLSCCInvocation", 2)
    /\ ActionOf(1, 2) = ActPassInvoke

\* the decoded invocation spec, its inner spec, its input or its argument
\* list is absent
AbsentSpec(a) == a.ChaincodeProposalPayload.dec \in {"nospec", "noinput", "noargs"}

\* C9: a lifecycle action whose outer layers decode and whose policy is
\* satisfied but whose invocation spec, inner spec, input or argument list
\* is absent is rejected with LifecycleInvocationError, and argument[0] is
\* not read.
C9_AbsentSpecRejected ==
    (Unpacked(1) /\ pc[1] # "idle") =>
        \A k \in 1..Len(tx[1].Actions) :
            (AbsentSpec(ActionOf(1, k)) /\ Lifecycle(1) /\ EvaluatedOK(1, k)
                /\ (Done(1) \/ act[1] > k)) =>
                    /\ Rejected(1)
                    /\ response[1].msg \in LifecycleInvocationError
                    /\ \E e \in Events(1, "ValidateLSCCInvocation") : log[1][e].n = k
                    /\ \A e \in Events(1, "ValidateLSCCInvocation") :
                          log[1][e].n = k => log[1][e].note # "Args[0]"

\* a lifecycle action whose argument list is absent, rejected
C9_Witness ==
    /\ Rejected(1)
    /\ LastEvent(1) = Event("ValidateLSCCInvocation", 1, "")
    /\ Lifecycle(1)
    /\ cap[1].ChaincodeProposalPayload.dec = "noargs"
    /\ response[1].msg = MsgInvalidInvocation

\* C10: every signature set handed to the evaluator has one entry per
\* endorsement of the action, and entry i carries the identity and the
\* signature of endorsement i; no endorsements give the empty set.
C10_SignatureSetShape ==
    \A j \in 1..Len(evaluated[1]) :
        LET a == ActionOf(1, evaluated[1][j].n)
            set == evaluated[1][j].set
        IN  /\ Len(set) = Len(a.Endorsements)
            /\ \A i \in 1..Len(a.Endorsements) :
                  /\ set[i].Identity = a.Endorsements[i].Endorser
                  /\ set[i].Signature = a.Endorsements[i].Signature
            /\ a.Endorsements = <<>> => set = <<>>

\* two endorsements by different endorsers, in order
C10_Witness ==
    /\ Len(evaluated[1]) = 1
    /\ Len(evaluated[1][1].set) = 2
    /\ evaluated[1][1].set[1].Identity = <<1>>
    /\ evaluated[1][1].set[2].Identity = <<2>>
    /\ evaluated[1][1].set[1].Signature # evaluated[1][1].set[2].Signature


\* C6: with fewer than 3 arguments the call is rejected with ArgumentError
\* whatever the bytes supplied, and nothing is decoded, compiled or
\* evaluated; with 3 or more the count check passes, and two calls that agree
\* on args[1] and args[2] return the same response whatever follows args[2].
C6_ArgumentCount ==
    /\ \A c \in Calls :
          (pc[c] \notin {"idle", "args"} /\ Len(args[c]) < 3) =>
              /\ Rejected(c)
              /\ response[c].msg \in ArgumentError
              /\ log[c] = <<>> /\ evaluated[c] = <<>>
    /\ \A c \in Calls :
          (Done(c) /\ Len(args[c]) >= 3) => response[c].msg # MsgArgCount
    /\ \A c \in Calls, d \in Calls :
          (/\ Done(c) /\ Done(d)
           /\ Len(args[c]) >= 3 /\ Len(args[d]) >= 3
           /\ args[c][2] = args[d][2] /\ args[c][3] = args[d][3])
              => response[c] = response[d]

\* a call with two arguments, a valid envelope among them, is rejected; a
\* call with an argument past args[2] is accepted
C6_Witness ==
    /\ Rejected(1)
    /\ Len(args[1]) = 2
    /\ args[1][2] = TxEnv(HdrExt("ok", LSCC), <<ActPassDeploy>>)
    /\ Accepted(2)
    /\ Len(args[2]) > 3

\* the evaluator of call c's compiled policy rejects the empty signature set
RejectsEmptySet(c) == ~PolicyEvaluate(policy[c], <<>>)
\* action k's payload decodes to a record whose endorsed action is present
\* and has no endorsements
ZeroEndorsements(c, k) ==
    ActionOf(c, k).dec = "ok" /\ ActionOf(c, k).Endorsements = <<>>

\* C11: for every decoded transaction in which some action has zero
\* endorsements, under a policy whose evaluator rejects the empty set, the
\* finished call is Rejected, the evaluator received the empty set for that
\* action if it received anything, and that action's evaluation never
\* succeeded.
C11_ZeroEndorsementsRejected ==
    (Done(1) /\ Unpacked(1) /\ RejectsEmptySet(1)) =>
        \A k \in 1..Len(tx[1].Actions) :
            ZeroEndorsements(1, k) =>
                /\ Rejected(1)
                /\ ~EvaluatedOK(1, k)
                /\ \A j \in 1..Len(evaluated[1]) :
                      evaluated[1][j].n = k => evaluated[1][j].set = <<>>

\* calls c and d validate the same (envelope, policy) pair
SamePair(c, d) ==
    /\ Len(args[c]) >= 3 /\ Len(args[d]) >= 3
    /\ args[c][2] = args[d][2]
    /\ args[c][3] = args[d][3]

\* C12: two finished calls that validate the same (envelope, policy) pair
\* have the same verdict and the same failure, made the same collaborator
\* calls in the same order and handed the same signature sets to the
\* evaluator, however their steps were interleaved.
C12_Idempotence ==
    \A c \in Calls, d \in Calls :
        (Done(c) /\ Done(d) /\ SamePair(c, d)) =>
            /\ response[c].status = response[d].status
            /\ response[c].msg = response[d].msg
            /\ log[c] = log[d]
            /\ evaluated[c] = evaluated[d]

\* the same transaction validated twice, its signature set built in a
\* buffer with spare capacity, rejected twice by the evaluator
C12_Witness ==
    /\ SamePair(1, 2)
    /\ args[1][2] = TxEnv(HdrExt("ok", "mycc"), <<ActAliased>>)
    /\ Rejected(1) /\ Rejected(2)
    /\ response[1].msg = MsgEvaluate /\ response[2].msg = MsgEvaluate
    /\ Len(evaluated[1]) = 1 /\ Len(evaluated[2]) = 1

\* C13: a call that has ended has ended in Accepted or in Rejected with a
\* reason, whatever the input, records with absent nested fields included;
\* a call that has not ended has returned nothing.
C13_AcceptedOrRejected ==
    /\ Done(1) =>
          /\ Accepted(1) \/ Rejected(1)
          /\ Rejected(1) => response[1].msg # ""
    /\ ~Done(1) => response[1] = NoResponse

\* The body of the loop of Invoke for one action, run without interruption:
\* Success when the loop goes on to the next action
LoopBody(pol, hdrExt, a) ==
    IF a.dec = "bad" THEN Error(MsgActionPayload)
    ELSE IF a.dec = "noaction" THEN Panic(MsgNilDereference)
    ELSE LET b == BuildSignatureSet(a)
             r == ValidateLSCCInvocation(a)
         IN  IF ~PolicyEvaluate(pol, SignedDataView(b.set, b.arr))
             THEN Error(MsgEvaluate)
             ELSE IF hdrExt.dec = "bad" THEN Error(MsgHeaderExtension)
             ELSE IF hdrExt.dec = "nocid" THEN Panic(MsgNilDereference)
             ELSE IF ~TargetsLSCC(hdrExt) THEN Success
             ELSE IF r.err = MsgIndexOutOfRange THEN Panic(r.err)
             ELSE IF r.err # "" THEN Error(r.err)
             ELSE Success

\* for _, act := range tx.Actions, from action k on
RECURSIVE Loop(_, _, _, _)
Loop(pol, hdrExt, actions, k) ==
    IF k > Len(actions) THEN Success
    ELSE IF LoopBody(pol, hdrExt, actions[k]) # Success
    THEN LoopBody(pol, hdrExt, actions[k])
    ELSE Loop(pol, hdrExt, actions, k + 1)

\* The response of Invoke for the argument list a when the call runs from
\* its first statement to its return with nothing else running
InvokeAlone(a) ==
    IF ArgumentCheck(a) # "" THEN Error(ArgumentCheck(a))
    ELSE IF a[2].layer = "env" THEN Error(MsgEnvelope)
    ELSE IF a[2].layer = "payl" THEN Error(MsgPayload)
    ELSE IF a[2].layer = "nohdr" THEN Panic(MsgNilDereference)
    ELSE IF a[2].layer = "chdr" THEN Error(MsgChannelHeader)
    ELSE IF ~a[3].compiles THEN Error(MsgNewPolicy)
    ELSE IF a[2].Type # ENDORSER_TRANSACTION THEN Error(MsgType)
    ELSE IF a[2].layer = "tx" THEN Error(MsgTransaction)
    ELSE Loop([mgr |-> MspTable[a[2].ChannelId], threshold |-> a[3].threshold],
              a[2].ext, a[2].Actions, 1)

\* C14: in every interleaving of two calls, on the same channel or on
\* different ones, each finished call has the response it produces when run
\* alone, each compiled policy is bound to the membership provider of the
\* call's own channel, and the table from channel id to membership provider
\* keeps its content.
C14_Independence ==
    /\ \A c \in Calls : Done(c) => response[c] = InvokeAlone(args[c])
    /\ \A c \in Calls :
          policy[c] # Null => policy[c].mgr = MspTable[chdr[c].ChannelId]
    /\ mspMap = MspTable

\* two calls on different channels with different policies, finished, one
\* accepted and one rejected, after running interleaved
C14_Witness ==
    /\ Accepted(1) /\ Rejected(2)
    /\ chdr[1] # Null /\ chdr[2] # Null
    /\ chdr[1].ChannelId = "ch1" /\ chdr[2].ChannelId = "ch2"
    /\ policy[1] # Null /\ policy[2] # Null
    /\ policy[1].mgr # policy[2].mgr
    /\ response[2].msg = MsgEvaluate

\* the events of call c's log that belong to an action of the loop
ActionEvents(c) == {j \in 1..Len(log[c]) : log[c][j].n > 0}

\* C15: once the channel header is decoded with a type other than
\* ENDORSER_TRANSACTION, the payload data is never decoded into a
\* Transaction, no action is iterated, the evaluator is never called, and
\* the call, once it has ended, is Rejected.
C15_HeaderTypeHardRejection ==
    (chdr[1] # Null /\ chdr[1].Type # ENDORSER_TRANSACTION) =>
        /\ pc[1] \in {"policy", "type", "done"}
        /\ Events(1, "GetTransaction") = {}
        /\ tx[1] = Null
        /\ ActionEvents(1) = {}
        /\ Events(1, "Evaluate") = {}
        /\ evaluated[1] = <<>>
        /\ Done(1) => Rejected(1)

\* a CONFIG envelope whose data holds an action that would pass, with a
\* policy that compiles: rejected for its type
C15_Witness ==
    /\ Rejected(1)
    /\ response[1].msg = MsgType
    /\ chdr[1] # Null
    /\ chdr[1].Type = "CONFIG"
    /\ payl[1].Data.Actions = <<ActPassDeploy>>
    /\ policy[1] # Null

\* the channel header of call c is decoded and the statement that compiles
\* the policy has been executed
Compiled(c) == chdr[c] # Null /\ pc[c] # "policy"

\* C16: the policy is compiled at most once in a call, and exactly once,
\* for the channel id of the decoded channel header, as soon as that header
\* is decoded and before the transaction or any action is touched; when the
\* compilation fails the call is rejected with the compilation failure,
\* which is not the evaluation failure, no action was decoded and the
\* evaluator was never called.
C16_CompileOncePerCall ==
    /\ Cardinality(Events(1, "NewPolicy")) <= 1
    /\ ~Compiled(1) =>
          /\ Events(1, "NewPolicy") = {}
          /\ Events(1, "GetTransaction") = {} /\ ActionEvents(1) = {}
    /\ Compiled(1) =>
          /\ Cardinality(Events(1, "NewPolicy")) = 1
          /\ \A j \in Events(1, "NewPolicy") :
                /\ log[1][j].note = payl[1].Header.ChannelHeader.ChannelId
                /\ \A i \in Events(1, "GetTransaction") \cup ActionEvents(1) : j < i
          /\ policy[1] # Null =>
                policy[1].mgr = mspMap[payl[1].Header.ChannelHeader.ChannelId]
          /\ ~args[1][3].compiles =>
                /\ Rejected(1)
                /\ response[1].msg = MsgNewPolicy
                /\ response[1].msg \notin PolicyEvaluationError
                /\ policy[1] = Null /\ tx[1] = Null
                /\ ActionEvents(1) = {}
                /\ evaluated[1] = <<>>

\* a transaction of the second channel with an action, validated against
\* policy bytes that do not compile
C16_Witness ==
    /\ Rejected(1)
    /\ LastEvent(1) = Event("NewPolicy", 0, "ch2")
    /\ args[1][2] = Ch2Env
    /\ args[1][3] = BrokenPolicy
    /\ response[1].msg = MsgNewPolicy

\* The checks made for one action, in their order: action-payload decode,
\* policy evaluation, header-extension decode, lifecycle guard.  The result
\* is the failure of the first check that fails, Success when none does.
ActionChecks(pol, hdrExt, a) ==
    LET b == BuildSignatureSet(a)
        r == ValidateLSCCInvocation(a)
    IN  IF a.dec = "bad" THEN Error(MsgActionPayload)
        ELSE IF ~PolicyEvaluate(pol, SignedDataView(b.set, b.arr))
        THEN Error(MsgEvaluate)
        ELSE IF hdrExt.dec = "bad" THEN Error(MsgHeaderExtension)
        ELSE IF TargetsLSCC(hdrExt) /\ r.err # "" THEN Error(r.err)
        ELSE Success

RECURSIVE FirstFailingAction(_, _, _, _)
FirstFailingAction(pol, hdrExt, actions, k) ==
    IF k > Len(actions) THEN Success
    ELSE IF ActionChecks(pol, hdrExt, actions[k]) # Success
    THEN ActionChecks(pol, hdrExt, actions[k])
    ELSE FirstFailingAction(pol, hdrExt, actions, k + 1)

\* The checks of Invoke in their order: argument count, envelope presence,
\* policy presence, envelope decode, payload decode, channel-header decode,
\* policy compilation, header type, transaction decode, then the checks of
\* each action.  The result is the failure of the first check that fails
\* for the argument list a, Success when none does.
FirstFailure(a) ==
    IF ArgumentCheck(a) # "" THEN Error(ArgumentCheck(a))
    ELSE IF a[2].layer = "env" THEN Error(MsgEnvelope)
    ELSE IF a[2].layer = "payl" THEN Error(MsgPayload)
    ELSE IF a[2].layer = "chdr" THEN Error(MsgChannelHeader)
    ELSE IF ~a[3].compiles THEN Error(MsgNewPolicy)
    ELSE IF a[2].Type # ENDORSER_TRANSACTION THEN Error(MsgType)
    ELSE IF a[2].layer = "tx" THEN Error(MsgTransaction)
    ELSE FirstFailingAction([mgr |-> MspTable[a[2].ChannelId],
                             threshold |-> a[3].threshold],
                            a[2].ext, a[2].Actions, 1)

\* the place of a collaborator call in the order of the checks
Rank(e) ==
    IF e.n = 0
    THEN CASE e.op = "GetEnvelopeFromBlock" -> 1
           [] e.op = "GetPayload" -> 2
           [] e.op = "UnmarshalChannelHeader" -> 3
           [] e.op = "NewPolicy" -> 4
           [] e.op = "GetTransaction" -> 5
           [] OTHER -> 0
    ELSE 5 * e.n
           + CASE e.op = "GetChaincodeActionPayload" -> 1
               [] e.op = "BuildSignatureSet" -> 2
               [] e.op = "Evaluate" -> 3
               [] e.op = "GetChaincodeHeaderExtension" -> 4
               [] e.op = "ValidateLSCCInvocation" -> 5
               [] OTHER -> 0

\* C17: the collaborator calls of a call are made in the order of the
\* checks, and a call made on an input for which some check fails ends
\* with the failure of the earliest failing check of the order, whatever
\* later checks would fail too.
C17_FailurePrecedence ==
    /\ \A i \in 1..Len(log[1]), j \in 1..Len(log[1]) :
          i < j => Rank(log[1][i]) < Rank(log[1][j])
    /\ (Done(1) /\ FirstFailure(args[1]) # Success) =>
          response[1] = FirstFailure(args[1])

\* C18: whenever the call is Accepted, the evaluator was called exactly
\* once for every action of the transaction, in the order of the actions,
\* and every one of these calls succeeded; a finished call whose decoded
\* transaction has no actions is Accepted with no evaluation, no guard run
\* and nothing decoded below the transaction.
C18_AcceptedMeansAllEvaluated ==
    /\ Accepted(1) =>
          /\ Unpacked(1)
          /\ Len(evaluated[1]) = Len(tx[1].Actions)
          /\ Cardinality(Events(1, "Evaluate")) = Len(tx[1].Actions)
          /\ \A k \in 1..Len(evaluated[1]) :
                evaluated[1][k].n = k /\ evaluated[1][k].ok
          /\ \A i \in Events(1, "Evaluate"), j \in Events(1, "Evaluate") :
                i < j => log[1][i].n < log[1][j].n
    /\ (Done(1) /\ Unpacked(1) /\ tx[1].Actions = <<>>) =>
          /\ Accepted(1)
          /\ evaluated[1] = <<>>
          /\ Events(1, "ValidateLSCCInvocation") = {}
          /\ ActionEvents(1) = {}

\* a transaction of three actions, accepted after three evaluations
C18_Witness ==
    /\ Accepted(1)
    /\ Len(tx[1].Actions) = 3
    /\ Len(evaluated[1]) = 3
    /\ evaluated[1][3].n = 3

\* the header extension was decoded for action k, its chaincode id is
\* present, and the test of the chaincode name was executed for action k
Decided(c, k) ==
    /\ Ran(c, "GetChaincodeHeaderExtension", k)
    /\ HdrExtOf(c).dec = "ok"
    /\ ~(act[c] = k /\ pc[c] = "lscc")

\* C19: for every action for which the decision was taken, the guard was
\* run exactly when the header extension of the payload-level header names
\* "lscc", so the decision is the same for all actions of the call; the
\* header extension is decoded at most once for an action, only after that
\* action's policy evaluation succeeded, and once for every action whose
\* evaluation succeeded as soon as the call has moved past that statement.
C19_GuardDecisionPerCall ==
    Unpacked(1) =>
        /\ \A k \in 1..Len(tx[1].Actions) :
              /\ Decided(1, k) =>
                    (Ran(1, "ValidateLSCCInvocation", k) <=> TargetsLSCC(HdrExtOf(1)))
              /\ Ran(1, "ValidateLSCCInvocation", k) => Decided(1, k)
              /\ Cardinality({j \in Events(1, "GetChaincodeHeaderExtension") :
                                 log[1][j].n = k}) <= 1
              /\ \A j \in Events(1, "GetChaincodeHeaderExtension") :
                    log[1][j].n = k =>
                        /\ j > 1
                        /\ log[1][j - 1] = Event("Evaluate", k, "ok")
              /\ (EvaluatedOK(1, k) /\ ~(act[1] = k /\ pc[1] = "hdrext")) =>
                    Ran(1, "GetChaincodeHeaderExtension", k)
        /\ \A k \in 1..Len(tx[1].Actions), m \in 1..Len(tx[1].Actions) :
              (Decided(1, k) /\ Decided(1, m)) =>
                  (Ran(1, "ValidateLSCCInvocation", k)
                      <=> Ran(1, "ValidateLSCCInvocation", m))

\* two actions of a lifecycle transaction, both guarded, the header
\* extension decoded once for each
C19_Witness ==
    /\ Unpacked(1)
    /\ Len(tx[1].Actions) = 2
    /\ Ran(1, "ValidateLSCCInvocation", 1)
    /\ Ran(1, "ValidateLSCCInvocation", 2)
    /\ Cardinality(Events(1, "GetChaincodeHeaderExtension")) = 2
    /\ Done(1)

====
